---- MODULE Spec2Model ----
(***************************************************************************)
(* AI Dental Copilot front end: the details screen (image upload followed  *)
(* by questionnaire analysis, then navigation to the report) and the Find   *)
(* Dentists screen, as state machines over the React state of each screen,  *)
(* the Formik form values, the onSubmit invocations in progress and the     *)
(* HTTP requests they send.                                                 *)
(*                                                                          *)
(* Text is a sequence of one-character strings, so that toLowerCase, split, *)
(* trim and Number are computed character by character as JavaScript does.  *)
(* Whitespace is the space character; numerals are decimal integers.        *)
(***************************************************************************)
EXTENDS Integers, Sequences, FiniteSets, TLC

\* ------------------------------------------------------------------ bounds

\* Submit presses (both screens together) explored in one behaviour.
MaxSubmits == 2

\* ------------------------------------------------------------ JS values

\* Text is a sequence of characters; the other JavaScript values are tuples
\* whose first element is no character, so no text equals any of them.
NULL == << "null" >>
Undefined == << "undefined" >>
NaN == << "NaN" >>
JsFalse == << "boolean", FALSE >>
JsTrue == << "boolean", TRUE >>
JsNumber(n) == << "number", n >>
Object(fields) == << "object", fields >>
Fields(o) == o[2]
EmptyText == << >>

UpperChars == <<"A","B","C","D","E","F","G","H","I","J","K","L","M",
                "N","O","P","Q","R","S","T","U","V","W","X","Y","Z">>
LowerChars == <<"a","b","c","d","e","f","g","h","i","j","k","l","m",
                "n","o","p","q","r","s","t","u","v","w","x","y","z">>
DigitChars == <<"0","1","2","3","4","5","6","7","8","9">>

IsSpace(c) == c = " "
IsDigit(c) == \E i \in 1..10 : DigitChars[i] = c
DigitVal(c) == (CHOOSE i \in 1..10 : DigitChars[i] = c) - 1

\* String.prototype.toLowerCase, one character.
LowerChar(c) ==
    IF \E i \in 1..26 : UpperChars[i] = c
    THEN LowerChars[CHOOSE i \in 1..26 : UpperChars[i] = c]
    ELSE c

\* String.prototype.toLowerCase
toLowerCase(s) == [i \in 1..Len(s) |-> LowerChar(s[i])]

\* String.prototype.trim
RECURSIVE trim(_)
trim(s) ==
    IF s = << >> THEN s
    ELSE IF IsSpace(Head(s)) THEN trim(Tail(s))
    ELSE IF IsSpace(s[Len(s)]) THEN trim(SubSeq(s, 1, Len(s) - 1))
    ELSE s

\* String.prototype.split with a one-character separator: the list of the
\* pieces between separators ("" splits to [""]).
RECURSIVE split(_, _)
split(s, sep) ==
    IF \A i \in 1..Len(s) : s[i] # sep THEN << s >>
    ELSE LET i == CHOOSE k \in 1..Len(s) :
                      s[k] = sep /\ \A j \in 1..(k - 1) : s[j] # sep
         IN  << SubSeq(s, 1, i - 1) >> \o split(SubSeq(s, i + 1, Len(s)), sep)

\* Array.prototype.pop's result: the last element.
pop(a) == a[Len(a)]

\* The value of a non-empty string of decimal digits.
RECURSIVE DigitsValue(_)
DigitsValue(s) ==
    IF s = << >> THEN 0
    ELSE 10 * DigitsValue(SubSeq(s, 1, Len(s) - 1)) + DigitVal(s[Len(s)])

AllDigits(s) == s # << >> /\ \A i \in 1..Len(s) : IsDigit(s[i])

\* Unary plus on a string without surrounding whitespace: "" is 0, an
\* optionally signed decimal integer is its value, anything else is NaN.
StringToNumber(t) ==
    IF t = << >> THEN JsNumber(0)
    ELSE IF AllDigits(t) THEN JsNumber(DigitsValue(t))
    ELSE IF Head(t) = "-" /\ AllDigits(Tail(t))
         THEN JsNumber(0 - DigitsValue(Tail(t)))
    ELSE IF Head(t) = "+" /\ AllDigits(Tail(t))
         THEN JsNumber(DigitsValue(Tail(t)))
    ELSE NaN

\* Number(string): surrounding whitespace is ignored, inner whitespace is not.
Number(s) == StringToNumber(trim(s))

\* ToBoolean: "", null, undefined, NaN, 0 and false are falsy, every other
\* value is truthy.
Truthy(x) ==
    IF Len(x) = 0 THEN FALSE
    ELSE IF Len(x) = 1 THEN x # NULL /\ x # Undefined /\ x # NaN
    ELSE IF x[1] = "number" THEN x[2] # 0
    ELSE IF x[1] = "boolean" THEN x[2]
    ELSE TRUE

IsObject(x) == Len(x) = 2 /\ x[1] = "object"

\* JSON.stringify of a value that is not undefined is a non-empty string,
\* and JSON.parse gives the value back ("null" parses to null).  A JSON text is
\* kept as the value it denotes; any other text is a sequence of characters,
\* on which JSON.parse throws a SyntaxError.
JSONstringify(x) == << "json", x >>
IsJSONText(j) == Len(j) = 2 /\ j[1] = "json"
JSONparse(j) == j[2]

\* ------------------------------------------------------- the details form

\* data.ts: the fixed questions list.
questions == <<
    "Do you have any sores or ulcers in your mouth?",
    "Is there any swelling or redness in your mouth?",
    "Are you experiencing any unusual pain in your mouth?",
    "Have you noticed any changes in the inner lining of your mouth recently?",
    "Have you noticed any lumps or thickened areas in your mouth or neck?" >>

\* The form key `q${index + 1}` of the question at (1-based) position i.
QKey(i) == << "q1", "q2", "q3", "q4", "q5" >>[i]
QKeys == { QKey(i) : i \in 1..Len(questions) }

Yes == << "Y", "e", "s" >>
No == << "N", "o" >>
\* The two option buttons rendered under each question.
Options == { Yes, No }

\* Formik initialValues of the details form.
DetailsInitialValues ==
    [ name |-> EmptyText, age |-> EmptyText, gender |-> EmptyText,
      medical_history |-> EmptyText, additional_context |-> EmptyText,
      q1 |-> EmptyText, q2 |-> EmptyText, q3 |-> EmptyText,
      q4 |-> EmptyText, q5 |-> EmptyText, file |-> EmptyText ]

\* Formik hands "" to Yup as undefined, and string().required() rejects both.
RequiredFails(x) == x = EmptyText

\* One Yup test: its error when the test fails.
ErrorIf(fails, field, message) == IF fails THEN { << field, message >> } ELSE {}

\* validationSchema of the details form: the set of <<field, message>> errors.
\* min(3) is skipped for an absent value; medical_history is optional;
\* required("") carries an empty message.
DetailsErrors(v) ==
    ErrorIf(RequiredFails(v.name), "name", "Name is required!")
    \cup ErrorIf(~RequiredFails(v.name) /\ Len(v.name) < 3,
                 "name", "name must be at least 3 characters")
    \cup ErrorIf(RequiredFails(v.age), "age", "Age is required!")
    \cup ErrorIf(RequiredFails(v.gender), "gender", "Gender is required!")
    \cup ErrorIf(RequiredFails(v.additional_context), "additional_context", "")
    \cup UNION { ErrorIf(RequiredFails(v[k]), k, "This is required!") : k \in QKeys }
    \cup ErrorIf(RequiredFails(v.file), "file", "Image is required!")

\* Formik's submitForm calls onSubmit only when validation returned no error.
DetailsValid(v) == DetailsErrors(v) = {}

\* ---------------------------------------------- the details screen's requests

\* onSubmit, lines 324-336: the multipart form built from values.file.
\* split(".").pop() of a URI without a dot is the whole URI; an empty
\* extension (a URI ending in a dot) falls back to "jpg".
FileExtension(fileUri) ==
    LET ext == toLowerCase(pop(split(fileUri, ".")))
    IN  IF Truthy(ext) THEN ext ELSE << "j", "p", "g" >>

MimeType(fileExtension) ==
    IF fileExtension = << "p", "n", "g" >> THEN "image/png" ELSE "image/jpeg"

\* The name of the multipart field the image part is appended under.
ImageFieldName == "file"

\* new FormData() after formData.append(field, {uri, name, type}).
\* Date.now() in the file name is left symbolic.
ImageFormData(fileUri) ==
    << [ field |-> ImageFieldName,
         value |-> [ uri  |-> fileUri,
                     name |-> << "oral_image_", "Date.now()", "." >>
                              \o FileExtension(fileUri),
                     type |-> MimeType(FileExtension(fileUri)) ] ] >>

ImageRequest(fileUri) ==
    [ endpoint |-> "/detection/analyze",
      contentType |-> "multipart/form-data",
      body |-> ImageFormData(fileUri) ]

\* Answers as it would be with the map's 0-based index used as it comes.
AnswersZeroBased(v) ==
    [ index \in 1..Len(questions) |->
        [ question_id |-> << "q0", "q1", "q2", "q3", "q4" >>[index],
          question_text |-> questions[index],
          answer |-> IF index = 1 THEN EmptyText ELSE v[QKey(index - 1)] ] ]

\* lines 362-366: questions.map((q, index) => ({question_id, question_text, answer}))
Answers(v) ==
    [ index \in 1..Len(questions) |->
        [ question_id |-> QKey(index),
          question_text |-> questions[index],
          answer |-> v[QKey(index)] ] ]

\* lines 369-376
PatientAge(v) == IF Truthy(v.age) THEN Number(v.age) ELSE NULL
\* PatientGender as it would be with the gender sent as typed.
PatientGenderAsTyped(v) == v.gender
PatientGender(v) == toLowerCase(v.gender)
PatientMedicalHistory(v) ==
    IF Truthy(v.medical_history)
    THEN LET parts == split(v.medical_history, ",")
         IN  [ i \in 1..Len(parts) |-> trim(parts[i]) ]
    ELSE << >>

PatientInfo(v) ==
    [ name |-> v.name,
      age |-> PatientAge(v),
      gender |-> PatientGender(v),
      medical_history |-> PatientMedicalHistory(v) ]

\* lines 368-379
QuestionnairePayload(v) ==
    [ patient_info |-> PatientInfo(v),
      answers |-> Answers(v),
      additional_context |-> v.additional_context ]

QuestionnaireRequest(v) ==
    [ endpoint |-> "/questionnaire/analyze",
      contentType |-> "application/json",
      body |-> QuestionnairePayload(v) ]

\* -------------------------------------------------- the Find Dentists form

\* Formik initialValues of the Find Dentists form.
DentistInitialValues ==
    [ address |-> EmptyText, city |-> EmptyText, state |-> EmptyText,
      country |-> EmptyText, radius_km |-> << "1", "0" >> ]

\* Yup's number() cast of a string: every whitespace character is removed,
\* an empty rest is NaN, otherwise the rest is converted with unary plus.
RECURSIVE RemoveSpaces(_)
RemoveSpaces(s) ==
    IF s = << >> THEN s
    ELSE IF IsSpace(Head(s)) THEN RemoveSpaces(Tail(s))
    ELSE << Head(s) >> \o RemoveSpaces(Tail(s))

YupNumberCast(s) ==
    LET parsed == RemoveSpaces(s)
    IN  IF parsed = << >> THEN NaN ELSE StringToNumber(parsed)

IsPositive(n) == n # NaN /\ n[2] > 0

\* dentistValidationSchema: the set of <<field, message>> errors.
DentistErrors(v) ==
    ErrorIf(RequiredFails(v.address), "address", "Address is required")
    \cup ErrorIf(RequiredFails(v.city), "city", "City is required")
    \cup ErrorIf(RequiredFails(v.state), "state", "State is required")
    \cup ErrorIf(RequiredFails(v.country), "country", "Country is required")
    \cup ErrorIf(RequiredFails(v.radius_km), "radius_km", "Radius is required")
    \cup ErrorIf(~RequiredFails(v.radius_km) /\ YupNumberCast(v.radius_km) = NaN,
                 "radius_km", "Radius must be a number")
    \cup ErrorIf(~RequiredFails(v.radius_km) /\ YupNumberCast(v.radius_km) # NaN
                     /\ ~IsPositive(YupNumberCast(v.radius_km)),
                 "radius_km", "Radius must be greater than 0")

DentistValid(v) == DentistErrors(v) = {}

\* onSubmit, lines 149-152: { ...values, radius_km: Number(values.radius_km) }
DentistBody(v) == [ v EXCEPT !.radius_km = Number(v.radius_km) ]

DentistRequest(v) ==
    [ endpoint |-> "/dentist/find-dentists",
      contentType |-> "application/json",
      body |-> DentistBody(v) ]

\* line 154: res.data.dentists || []
DentistsOf(data) ==
    IF "dentists" \in DOMAIN Fields(data) THEN Fields(data).dentists ELSE << >>

\* ------------------------------------------------------------ the backend

\* Risk Assessment Logic of the backend's oral health agent: the number of
\* "yes" responses among the answers decides the level.
YesCount(answers) ==
    Cardinality({ i \in DOMAIN answers :
                    toLowerCase(answers[i].answer) = << "y", "e", "s" >> })

\* RiskLevel as it would be with the thresholds one too low.
RiskLevelOneLower(answers) ==
    IF YesCount(answers) >= 2 THEN "High"
    ELSE IF YesCount(answers) = 1 THEN "Medium"
    ELSE "Low"

RiskLevel(answers) ==
    IF YesCount(answers) >= 3 THEN "High"
    ELSE IF YesCount(answers) = 2 THEN "Medium"
    ELSE "Low"

\* What POST /detection/analyze answers with on success, with the members
\* the report screen reads (the confidence in percent).
ImageResults ==
    { Object([ prediction |-> "Normal", confidence |-> 90, risk_level |-> "Low",
               recommendations |-> << "Keep up your oral hygiene." >> ]) }

\* The questionnaire analysis of a risk level, with the members the report
\* screen reads.
AnalysisOf(level) ==
    Object([ risk_level |-> level,
             summary_paragraph |-> "summary",
             recommendations |-> << "See a dentist." >>,
             next_steps |-> << "Book a visit." >> ])

\* What POST /questionnaire/analyze answers a request body with on success.
QuestionnaireResult(body) == AnalysisOf(RiskLevel(body.answers))

\* What POST /dentist/find-dentists answers with on success: some dentists,
\* or a body without a `dentists` member.
DentistResults ==
    { Object([ dentists |-> << [ name |-> "Dr. Usman Khan" ] >> ]),
      Object([ message |-> "no results" ]) }

\* ------------------------------------------------------- the report screen

ReportCards ==
    << "AI Prediction", "Patient Questionnaire", "Recommendations", "Next Steps" >>

\* x.member.map(...) throws a TypeError unless x has the member.
HasMember(x, member) == IsObject(x) /\ member \in DOMAIN Fields(x)

\* ReportScreen, lines 206-310, for the route parameters `params`: the titles
\* of the cards it renders, or the error its render throws.
ReportScreen(params) ==
    LET q == params.questionnaireResult
        m == params.imageResult
        analysisData == IF Truthy(q) THEN JSONparse(q) ELSE NULL
        imageData == IF Truthy(m) THEN JSONparse(m) ELSE NULL
        Rendered(error, cards) ==
            [ open |-> TRUE, params |-> params, error |-> error, cards |-> cards ]
    IN  IF (Truthy(q) /\ ~IsJSONText(q)) \/ (Truthy(m) /\ ~IsJSONText(m))
        THEN Rendered("SyntaxError", << >>)
        ELSE IF ~Truthy(analysisData) \/ ~Truthy(imageData)
        THEN Rendered("none", << "No Report Available" >>)
        ELSE IF /\ HasMember(imageData, "recommendations")
                /\ HasMember(analysisData, "recommendations")
                /\ HasMember(analysisData, "next_steps")
        THEN Rendered("none", ReportCards)
        ELSE Rendered("TypeError", << >>)

\* The report screen before the router has rendered it.
ReportClosed ==
    [ open |-> FALSE,
      params |-> [ imageResult |-> Undefined, questionnaireResult |-> Undefined ],
      error |-> "none", cards |-> << >> ]

\* ------------------------------------------------------------------ state

VARIABLES
    values,        \* details screen: Formik values
    imageUri,      \* details screen: useState<string | null>
    loading,       \* details screen: useState(false)
    submissions,   \* details screen: the onSubmit invocations, in call order
    dValues,       \* Find Dentists screen: Formik values
    dLoading,      \* Find Dentists screen: useState(false)
    results,       \* Find Dentists screen: useState<any[]>([])
    searches,      \* Find Dentists screen: the onSubmit invocations
    navigation,    \* every router.push issued by the details screen, in order
    touched,       \* details screen: Formik touched (every field, or none)
    errors,        \* details screen: Formik errors, as <<field, message>> pairs
    report         \* the report screen as the router last rendered it

vars == << values, imageUri, loading, submissions, dValues, dLoading,
           results, searches, navigation, touched, errors, report >>

detailsVars == << values, imageUri, loading, submissions, navigation,
                  touched, errors, report >>
dentistVars == << dValues, dLoading, results, searches >>

\* --------------------------------------------------------------- inputs

TextAnn == << "A", "n", "n" >>
TextAl == << "A", "l" >>
Text35 == << "3", "5" >>
TextMale == << "M", "a", "l", "e" >>
TextHistory == << "f", "l", "u", ",", " ", "A", "s", "t", "h", "m", "a" >>
TextNote == << "o", "k" >>
UriPng == << "a", ".", "p", "n", "g" >>
UriContent == << "i", "m", "g" >>

\* What the user leaves in the text fields and option buttons of the details
\* form between two other events (the image is chosen with pickImage): a
\* complete form, and one with a short name and questions left open.
DetailsInputs ==
    { [ name |-> TextAnn, age |-> Text35, gender |-> TextMale,
        medical_history |-> TextHistory, additional_context |-> TextNote,
        q1 |-> Yes, q2 |-> No, q3 |-> Yes, q4 |-> No, q5 |-> Yes ],
      [ name |-> TextAl, age |-> Text35, gender |-> TextMale,
        medical_history |-> EmptyText, additional_context |-> EmptyText,
        q1 |-> Yes, q2 |-> No, q3 |-> EmptyText, q4 |-> EmptyText,
        q5 |-> EmptyText ] }

UriJpg == << "b", ".", "j", "p", "g" >>
UriBigPng == << "c", ".", "p", "n", "g" >>
UriGif == << "d", ".", "g", "i", "f" >>
UriJpegNamedPng == << "e", ".", "p", "n", "g" >>
UriBigJpg == << "f", ".", "j", "p", "g" >>
UriUpperJpg == << "g", ".", "J", "P", "G" >>

\* The images of the device's library: where each is, its type, its size in
\* bytes and the fileSize the picker reports for it (the member is optional).
Images ==
    { [ uri |-> UriPng, mimeType |-> "image/png", bytes |-> 500000,
        fileSize |-> JsNumber(500000) ],
      [ uri |-> UriContent, mimeType |-> "image/png", bytes |-> 300000,
        fileSize |-> Undefined ],
      [ uri |-> UriJpg, mimeType |-> "image/jpeg", bytes |-> 1024 * 1024,
        fileSize |-> JsNumber(1024 * 1024) ],
      [ uri |-> UriBigPng, mimeType |-> "image/png", bytes |-> 1024 * 1024 + 1,
        fileSize |-> JsNumber(1024 * 1024 + 1) ],
      [ uri |-> UriGif, mimeType |-> "image/gif", bytes |-> 1000,
        fileSize |-> JsNumber(1000) ],
      [ uri |-> UriJpegNamedPng, mimeType |-> "image/jpeg", bytes |-> 1000,
        fileSize |-> JsNumber(1000) ],
      [ uri |-> UriBigJpg, mimeType |-> "image/jpeg", bytes |-> 2 * 1024 * 1024,
        fileSize |-> Undefined ],
      [ uri |-> UriUpperJpg, mimeType |-> "image/jpg", bytes |-> 1000,
        fileSize |-> JsNumber(1000) ] }

\* The library image at a URI.
ImageAt(uri) == CHOOSE image \in Images : image.uri = uri

\* What ImagePicker.launchImageLibraryAsync resolves to when the user picks
\* the image: result.assets[0], flattened.
Picked(image) ==
    [ canceled |-> FALSE, uri |-> image.uri, mimeType |-> image.mimeType,
      fileSize |-> image.fileSize ]

\* What ImagePicker.launchImageLibraryAsync resolves to: the pick cancelled,
\* or one of four images picked.
PickResults ==
    { [ canceled |-> TRUE ] }
    \cup { Picked(ImageAt(uri)) : uri \in { UriPng, UriContent, UriBigPng, UriGif } }

\* The same with any image of the library picked.
PickAssets == { [ canceled |-> TRUE ] } \cup { Picked(image) : image \in Images }

Text1St == << "1", " ", "S", "t" >>
TextNY == << "N", "Y" >>
TextUS == << "U", "S" >>

\* What the user leaves in the Find Dentists form between two other events.
DentistInputs ==
    { [ address |-> Text1St, city |-> TextNY, state |-> TextNY,
        country |-> TextUS, radius_km |-> << "2", "5" >> ],
      [ address |-> Text1St, city |-> TextNY, state |-> TextNY,
        country |-> TextUS, radius_km |-> << "1", " ", "0" >> ] }

\* ----------------------------------------------------------------- Init

Init ==
    /\ values = DetailsInitialValues
    /\ imageUri = NULL
    /\ loading = FALSE
    /\ submissions = << >>
    /\ dValues = DentistInitialValues
    /\ dLoading = FALSE
    /\ results = << >>
    /\ searches = << >>
    /\ navigation = << >>
    /\ touched = FALSE
    /\ errors = {}
    /\ report = ReportClosed

\* Submit presses that reached onSubmit so far, on both screens.
Submits == Len(submissions) + Len(searches)

\* -------------------------------------------------- details screen: input

\* onChangeText={handleChange(field)} of the five text inputs and
\* onPress={() => setFieldValue(key, option)} of the option buttons: the
\* form takes the entered texts and answers; an answered question cannot be
\* unanswered, and the file field is only written by pickImage.  Formik
\* validates on every change.
DetailsEdit(input) ==
    /\ \A k \in QKeys : input[k] \in Options \/ values[k] = EmptyText
    /\ values' = [ f \in DOMAIN values |->
                     IF f = "file" THEN values.file ELSE input[f] ]
    /\ values' # values
    /\ errors' = DetailsErrors(values')
    /\ UNCHANGED << imageUri, loading, submissions, navigation, touched, report >>
    /\ UNCHANGED dentistVars

\* pickImage, lines 267-289: whether the picked asset is taken.
PickAccepted(result) ==
    /\ ~result.canceled
    /\ ~(Truthy(result.fileSize) /\ result.fileSize[2] > 1024 * 1024)
    /\ result.mimeType \in { "image/jpeg", "image/jpg", "image/png" }

pickImage(result) ==
    /\ IF PickAccepted(result)
       THEN /\ imageUri' = result.uri
            /\ values' = [ values EXCEPT !.file = result.uri ]
            /\ errors' = DetailsErrors(values')
       ELSE UNCHANGED << imageUri, values, errors >>
    /\ UNCHANGED << loading, submissions, navigation, touched, report >>
    /\ UNCHANGED dentistVars

\* ----------------------------------------------- details screen: onSubmit

\* The submit button's onPress={() => handleSubmit()} is bound whatever
\* `loading` is; Formik marks every field touched, validates and, with no
\* error, calls onSubmit with the values of that moment.  onSubmit runs to its first await: setLoading(true),
\* then the image upload when values.file is set, else the questionnaire.
DetailsHandleSubmit ==
    /\ Submits < MaxSubmits
    /\ DetailsValid(values)
    /\ LET upload == Truthy(values.file)
       IN  submissions' = Append(submissions,
               [ values |-> values,
                 imageUri |-> imageUri,
                 imageData |-> NULL,
                 pc |-> IF upload THEN "image" ELSE "questionnaire",
                 sent |-> << IF upload THEN ImageRequest(values.file)
                             ELSE QuestionnaireRequest(values) >>,
                 imageResponse |-> "none",
                 questionnaireResponse |-> "none",
                 alerts |-> << >> ])
    /\ loading' = TRUE
    /\ touched' = TRUE
    /\ errors' = DetailsErrors(values)
    /\ UNCHANGED << values, imageUri, navigation, report >>
    /\ UNCHANGED dentistVars

\* The same press on a form that fails validation: Formik marks every field
\* touched, stores the errors and does not call onSubmit.
DetailsSubmitBlocked ==
    /\ ~DetailsValid(values)
    /\ touched' = TRUE
    /\ errors' = DetailsErrors(values)
    /\ UNCHANGED << values, imageUri, loading, submissions, navigation, report >>
    /\ UNCHANGED dentistVars

\* The upload resolved: imageData = imageRes.data, the inner finally's
\* setLoading(false), then lines 362-385 in the same turn: the payload is
\* built from the submitted values, setLoading(true), and the questionnaire
\* request is issued.
ImageResponse(i, data) ==
    /\ submissions[i].pc = "image"
    /\ submissions' = [ submissions EXCEPT
           ![i].imageData = data,
           ![i].imageResponse = "ok",
           ![i].sent = Append(@, QuestionnaireRequest(submissions[i].values)),
           ![i].pc = "questionnaire" ]
    /\ loading' = TRUE
    /\ UNCHANGED << values, imageUri, navigation, touched, errors, report >>
    /\ UNCHANGED dentistVars

\* ImageError as it would be if the failed upload went unreported.
ImageErrorSilent(i) ==
    /\ submissions[i].pc = "image"
    /\ submissions' = [ submissions EXCEPT ![i].imageResponse = "error",
                                           ![i].pc = "done" ]
    /\ loading' = FALSE
    /\ UNCHANGED << values, imageUri, navigation, touched, errors, report >>
    /\ UNCHANGED dentistVars

\* ImageError as it would be without the `return` of the inner catch: after
\* the alert the handler goes on to the questionnaire request.
ImageErrorNoReturn(i) ==
    /\ submissions[i].pc = "image"
    /\ submissions' = [ submissions EXCEPT
           ![i].imageResponse = "error",
           ![i].alerts = Append(@, "Upload Failed"),
           ![i].sent = Append(@, QuestionnaireRequest(submissions[i].values)),
           ![i].pc = "questionnaire" ]
    /\ loading' = TRUE
    /\ UNCHANGED << values, imageUri, navigation, touched, errors, report >>
    /\ UNCHANGED dentistVars

\* ImageError as it would be if the handler uploaded the image again.
ImageErrorRetry(i) ==
    /\ submissions[i].pc = "image"
    /\ Len(submissions[i].alerts) = 0
    /\ submissions' = [ submissions EXCEPT
           ![i].alerts = Append(@, "Upload Failed"),
           ![i].sent = Append(@, ImageRequest(submissions[i].values.file)) ]
    /\ loading' = TRUE
    /\ UNCHANGED << values, imageUri, navigation, touched, errors, report >>
    /\ UNCHANGED dentistVars

\* The upload rejected (an error status, no connection, or the 25 s timeout):
\* the inner catch alerts and returns; both finally blocks setLoading(false).
ImageError(i) ==
    /\ submissions[i].pc = "image"
    /\ submissions' = [ submissions EXCEPT
           ![i].imageResponse = "error",
           ![i].alerts = Append(@, "Upload Failed"),
           ![i].pc = "done" ]
    /\ loading' = FALSE
    /\ UNCHANGED << values, imageUri, navigation, touched, errors, report >>
    /\ UNCHANGED dentistVars

\* router.push of lines 392-398.
ReportRoute(i, imageData, questionnaireData) ==
    [ by |-> i,
      pathname |-> "./report",
      params |-> [ imageResult |-> JSONstringify(imageData),
                   questionnaireResult |-> JSONstringify(questionnaireData) ] ]

\* QuestionnaireResponse as it would be without lines 388-390: the selected
\* image stays after the form was reset.
QuestionnaireResponseKeepsImage(i) ==
    /\ submissions[i].pc = "questionnaire"
    /\ submissions' = [ submissions EXCEPT ![i].questionnaireResponse = "ok",
                                           ![i].pc = "done" ]
    /\ values' = DetailsInitialValues
    /\ touched' = FALSE
    /\ errors' = {}
    /\ navigation' = Append(navigation,
           ReportRoute(i, submissions[i].imageData,
               QuestionnaireResult(QuestionnairePayload(submissions[i].values))))
    /\ report' = ReportScreen(navigation'[Len(navigation')].params)
    /\ loading' = FALSE
    /\ UNCHANGED imageUri
    /\ UNCHANGED dentistVars

\* The questionnaire request resolved: resetForm() (values, touched and
\* errors), setImageUri(null) when the imageUri this onSubmit closed over is
\* set, router.push, which renders the report screen, setLoading(false).
QuestionnaireResponse(i) ==
    /\ submissions[i].pc = "questionnaire"
    /\ submissions' = [ submissions EXCEPT ![i].questionnaireResponse = "ok",
                                           ![i].pc = "done" ]
    /\ values' = DetailsInitialValues
    /\ touched' = FALSE
    /\ errors' = {}
    /\ imageUri' = IF Truthy(submissions[i].imageUri) THEN NULL ELSE imageUri
    /\ navigation' = Append(navigation,
           ReportRoute(i, submissions[i].imageData,
               QuestionnaireResult(QuestionnairePayload(submissions[i].values))))
    /\ report' = ReportScreen(navigation'[Len(navigation')].params)
    /\ loading' = FALSE
    /\ UNCHANGED dentistVars

\* QuestionnaireError as it would be with the form reset and the image
\* cleared on the failure path too.
QuestionnaireErrorResets(i) ==
    /\ submissions[i].pc = "questionnaire"
    /\ submissions' = [ submissions EXCEPT
           ![i].questionnaireResponse = "error",
           ![i].alerts = Append(@, "Error"),
           ![i].pc = "done" ]
    /\ values' = DetailsInitialValues
    /\ touched' = FALSE
    /\ errors' = {}
    /\ imageUri' = NULL
    /\ loading' = FALSE
    /\ UNCHANGED << navigation, report >>
    /\ UNCHANGED dentistVars

\* QuestionnaireError as it would be without the outer finally: `loading`
\* stays as the failed invocation found it.
QuestionnaireErrorKeepsLoading(i) ==
    /\ submissions[i].pc = "questionnaire"
    /\ submissions' = [ submissions EXCEPT
           ![i].questionnaireResponse = "error",
           ![i].alerts = Append(@, "Error"),
           ![i].pc = "done" ]
    /\ UNCHANGED << values, imageUri, loading, navigation, touched, errors,
                    report >>
    /\ UNCHANGED dentistVars

\* The questionnaire request rejected: the outer catch alerts, the outer
\* finally's setLoading(false).
QuestionnaireError(i) ==
    /\ submissions[i].pc = "questionnaire"
    /\ submissions' = [ submissions EXCEPT
           ![i].questionnaireResponse = "error",
           ![i].alerts = Append(@, "Error"),
           ![i].pc = "done" ]
    /\ loading' = FALSE
    /\ UNCHANGED << values, imageUri, navigation, touched, errors, report >>
    /\ UNCHANGED dentistVars

\* ------------------------------------------------- Find Dentists screen

\* onChangeText={handleChange(field)} of the five inputs.
DentistEdit(input) ==
    /\ dValues' = input
    /\ dValues' # dValues
    /\ UNCHANGED << dLoading, results, searches >>
    /\ UNCHANGED detailsVars

\* DentistHandleSubmit as it would be with the Search text rendered whatever
\* `loading` is.
DentistHandleSubmitAlways ==
    /\ Submits < MaxSubmits
    /\ DentistValid(dValues)
    /\ searches' = Append(searches,
           [ values |-> dValues, pc |-> "search",
             sent |-> << DentistRequest(dValues) >>,
             response |-> "none", data |-> NULL, alerts |-> << >> ])
    /\ dLoading' = TRUE
    /\ UNCHANGED << dValues, results >>
    /\ UNCHANGED detailsVars

\* The Search text (whose onPress calls handleSubmit) is rendered only while
\* `loading` is false.  onSubmit to its await: setLoading(true), axios.post.
DentistHandleSubmit ==
    /\ Submits < MaxSubmits
    /\ ~dLoading
    /\ DentistValid(dValues)
    /\ searches' = Append(searches,
           [ values |-> dValues, pc |-> "search",
             sent |-> << DentistRequest(dValues) >>,
             response |-> "none", data |-> NULL, alerts |-> << >> ])
    /\ dLoading' = TRUE
    /\ UNCHANGED << dValues, results >>
    /\ UNCHANGED detailsVars

\* The search resolved: setResults(res.data.dentists || []), resetForm(),
\* setLoading(false).
DentistResponse(i, data) ==
    /\ searches[i].pc = "search"
    /\ searches' = [ searches EXCEPT ![i].response = "ok", ![i].data = data,
                                     ![i].pc = "done" ]
    /\ results' = DentistsOf(data)
    /\ dValues' = DentistInitialValues
    /\ dLoading' = FALSE
    /\ UNCHANGED detailsVars

\* DentistError as it would be if the failed search emptied the list.
DentistErrorClearsResults(i) ==
    /\ searches[i].pc = "search"
    /\ searches' = [ searches EXCEPT
           ![i].response = "error",
           ![i].alerts = Append(@, "Something went wrong, please try again."),
           ![i].pc = "done" ]
    /\ results' = << >>
    /\ dLoading' = FALSE
    /\ UNCHANGED dValues
    /\ UNCHANGED detailsVars

\* The search rejected: alert(...), setLoading(false).
DentistError(i) ==
    /\ searches[i].pc = "search"
    /\ searches' = [ searches EXCEPT
           ![i].response = "error",
           ![i].alerts = Append(@, "Something went wrong, please try again."),
           ![i].pc = "done" ]
    /\ dLoading' = FALSE
    /\ UNCHANGED << dValues, results >>
    /\ UNCHANGED detailsVars

\* The results section, lines 313-364: the "No Dentist!" card when the list is
\* empty, else one card per dentist (a card is named by its title).
ResultsSection ==
    IF Len(results) = 0 THEN << "No Dentist!" >>
    ELSE [ index \in 1..Len(results) |-> results[index].name ]

\* ------------------------------------------------------- specifications

UserEdits ==
    \/ \E input \in DetailsInputs : DetailsEdit(input)
    \/ \E result \in PickResults : pickImage(result)
    \/ \E input \in DentistInputs : DentistEdit(input)

Submitting ==
    \/ DetailsHandleSubmit
    \/ DetailsSubmitBlocked
    \/ DentistHandleSubmit

DetailsResponses ==
    \/ \E i \in DOMAIN submissions, data \in ImageResults : ImageResponse(i, data)
    \/ \E i \in DOMAIN submissions : ImageError(i)
    \/ \E i \in DOMAIN submissions : QuestionnaireResponse(i)
    \/ \E i \in DOMAIN submissions : QuestionnaireError(i)

Responses ==
    \/ DetailsResponses
    \/ \E i \in DOMAIN searches, data \in DentistResults : DentistResponse(i, data)
    \/ \E i \in DOMAIN searches : DentistError(i)

Next == UserEdits \/ Submitting \/ Responses

\* Both screens from their construction, under every interleaving of edits,
\* picks, submit presses and responses.
Spec == Init /\ [][Next]_vars

\* ------------------------------------------- forms in every combination

NameInputs == { EmptyText, TextAl, TextAnn }
AgeInputs == { EmptyText, Text35, << "3", "x" >> }
GenderInputs == { EmptyText, TextMale }
HistoryInputs == { EmptyText, TextHistory }
NoteInputs == { EmptyText, TextNote }
AnswerInputs == { EmptyText } \cup Options
FileInputs == { EmptyText, UriPng }

\* Every details form over the field inputs above.
DetailsForms ==
    { [ name |-> n, age |-> a, gender |-> g, medical_history |-> h,
        additional_context |-> c, q1 |-> qs[1], q2 |-> qs[2], q3 |-> qs[3],
        q4 |-> qs[4], q5 |-> qs[5], file |-> f ] :
        n \in NameInputs, a \in AgeInputs, g \in GenderInputs,
        h \in HistoryInputs, c \in NoteInputs,
        qs \in [ 1..5 -> AnswerInputs ], f \in FileInputs }

RadiusInputs ==
    { EmptyText, << "1", "0" >>, << "0" >>, << "-", "5" >>,
      << "a", "b", "c" >>, << "1", " ", "0" >>, << " ", "5" >> }

\* Every Find Dentists form over the field inputs above.
DentistForms ==
    { [ address |-> a, city |-> c, state |-> s, country |-> n, radius_km |-> r ] :
        a \in { EmptyText, Text1St }, c \in { EmptyText, TextNY },
        s \in { EmptyText, TextNY }, n \in { EmptyText, TextUS },
        r \in RadiusInputs }

\* One of the screens holds a form the user has filled in, in any combination
\* of the field inputs; the image preview shows the form's image.
InitForms ==
    /\ \/ values \in DetailsForms /\ dValues = DentistInitialValues
       \/ values = DetailsInitialValues /\ dValues \in DentistForms
    /\ imageUri = IF Truthy(values.file) THEN values.file ELSE NULL
    /\ loading = FALSE
    /\ submissions = << >>
    /\ dLoading = FALSE
    /\ results = << >>
    /\ searches = << >>
    /\ navigation = << >>
    /\ touched = FALSE
    /\ errors = IF values = DetailsInitialValues THEN {} ELSE DetailsErrors(values)
    /\ report = ReportClosed

NextForms == Submitting \/ Responses

\* The submit presses and the responses on a form filled in any combination.
SpecForms == InitForms /\ [][NextForms]_vars

\* ------------------------------------------------- every request answered

\* Both screens hold a form that passes validation, the details form with
\* its image picked.
InitLive ==
    /\ \E input \in DetailsInputs, uri \in { UriPng, UriContent } :
         /\ values = [ f \in DOMAIN DetailsInitialValues |->
                         IF f = "file" THEN uri ELSE input[f] ]
         /\ imageUri = uri
    /\ DetailsValid(values)
    /\ dValues \in { d \in DentistInputs : DentistValid(d) }
    /\ loading = FALSE
    /\ submissions = << >>
    /\ dLoading = FALSE
    /\ results = << >>
    /\ searches = << >>
    /\ navigation = << >>
    /\ touched = FALSE
    /\ errors = {}
    /\ report = ReportClosed

\* The submit presses and the responses, no request staying pending for ever:
\* one that is not answered ends in an error (a lost connection or a timeout).
SpecLive ==
    /\ InitLive
    /\ [][NextForms]_vars
    /\ WF_vars(\E i \in DOMAIN submissions : ImageError(i))
    /\ WF_vars(\E i \in DOMAIN submissions : QuestionnaireError(i))
    /\ WF_vars(\E i \in DOMAIN searches : DentistError(i))

\* ------------------------------------------------- images of every kind

\* The details form filled in, its image not picked yet.
InitPicks ==
    /\ \E input \in DetailsInputs :
         values = [ f \in DOMAIN DetailsInitialValues |->
                      IF f = "file" THEN EmptyText ELSE input[f] ]
    /\ DetailsErrors(values) = { << "file", "Image is required!" >> }
    /\ imageUri = NULL
    /\ loading = FALSE
    /\ submissions = << >>
    /\ dValues = DentistInitialValues
    /\ dLoading = FALSE
    /\ results = << >>
    /\ searches = << >>
    /\ navigation = << >>
    /\ touched = FALSE
    /\ errors = DetailsErrors(values)
    /\ report = ReportClosed

NextPicks ==
    \/ \E result \in PickAssets : pickImage(result)
    \/ DetailsHandleSubmit
    \/ DetailsSubmitBlocked
    \/ DetailsResponses

\* Picking any image of the library into a form that is otherwise complete,
\* and submitting it.
SpecPicks == InitPicks /\ [][NextPicks]_vars

\* ------------------------------------------- the report route on its own

\* A route parameter: absent, empty, a text that is no JSON, or the JSON text
\* of null, false, 0, "", true or an object without the members read.
OddParams ==
    { Undefined, EmptyText, << "{" >>, JSONstringify(NULL),
      JSONstringify(JsFalse), JSONstringify(JsNumber(0)),
      JSONstringify(EmptyText), JSONstringify(JsTrue),
      JSONstringify(Object([ detail |-> "Not Found" ])) }

\* The parameters the report route can be opened with.
RouteParams ==
    { [ imageResult |-> m, questionnaireResult |-> q ] :
        m \in OddParams \cup { JSONstringify(d) : d \in ImageResults },
        q \in OddParams
              \cup { JSONstringify(AnalysisOf(l)) : l \in { "High", "Medium", "Low" } } }

\* The router renders the report route with the parameters of the link that
\* opened it (useLocalSearchParams).
OpenReport(params) ==
    /\ report' = ReportScreen(params)
    /\ UNCHANGED << values, imageUri, loading, submissions, navigation,
                    touched, errors >>
    /\ UNCHANGED dentistVars

NextReport == \E params \in RouteParams : OpenReport(params)

\* The report route opened with any of the parameters above.
SpecReport == Init /\ [][NextReport]_vars

\* ================================================================ claims

Failed(sub) ==
    sub.imageResponse = "error" \/ sub.questionnaireResponse = "error"

\* Who has called onSubmit: << screen, position among its invocations >>.
Submitters ==
    { << "details", i >> : i \in DOMAIN submissions }
    \cup { << "dentist", i >> : i \in DOMAIN searches }

SentBy(by) ==
    IF by[1] = "details" THEN submissions[by[2]].sent ELSE searches[by[2]].sent

\* Every axios.post issued so far, keyed by << submitter, position among the
\* submitter's requests >>.
requests ==
    [ key \in UNION { { << by, n >> : n \in DOMAIN SentBy(by) } : by \in Submitters }
        |-> [ by |-> key[1],
              endpoint |-> SentBy(key[1])[key[2]].endpoint,
              contentType |-> SentBy(key[1])[key[2]].contentType,
              body |-> SentBy(key[1])[key[2]].body ] ]

RequestsBy(by, endpoint) ==
    { k \in DOMAIN requests :
        requests[k].by = by /\ requests[k].endpoint = endpoint }

InProgress == { i \in DOMAIN submissions : submissions[i].pc # "done" }

\* C1: a submission in which a request failed has shown exactly one alert, and
\* a submission in which no request failed has shown none, on both screens.
C1_OneAlertPerFailure ==
    /\ \A i \in DOMAIN submissions :
         Len(submissions[i].alerts) = IF Failed(submissions[i]) THEN 1 ELSE 0
    /\ \A i \in DOMAIN searches :
         Len(searches[i].alerts) =
             IF searches[i].response = "error" THEN 1 ELSE 0

\* One details submission ended on a failed questionnaire request with its one
\* alert while another went through without any.
C1_Witness ==
    \E i, j \in DOMAIN submissions :
        /\ submissions[i].questionnaireResponse = "error"
        /\ submissions[i].alerts = << "Error" >>
        /\ submissions[j].questionnaireResponse = "ok"
        /\ submissions[j].alerts = << >>

\* C2: a questionnaire request is issued only by a submission whose own image
\* request was issued before and answered successfully, and every navigation
\* to the report comes from a submission both of whose requests were
\* answered, carrying both answers as non-null parameters.
C2_UploadThenQuestionnaireThenReport ==
    /\ \A k \in DOMAIN requests :
         (requests[k].by[1] = "details"
             /\ requests[k].endpoint = "/questionnaire/analyze")
         => /\ submissions[requests[k].by[2]].imageResponse = "ok"
            /\ submissions[requests[k].by[2]].imageData # NULL
            /\ \E j \in DOMAIN requests :
                 /\ requests[j].by = requests[k].by
                 /\ j[2] < k[2]
                 /\ requests[j].endpoint = "/detection/analyze"
    /\ \A n \in DOMAIN navigation :
         LET sub == submissions[navigation[n].by]
             route == navigation[n]
         IN  /\ sub.imageResponse = "ok"
             /\ sub.questionnaireResponse = "ok"
             /\ route.pathname = "./report"
             /\ JSONparse(route.params.imageResult) = sub.imageData
             /\ JSONparse(route.params.imageResult) # NULL
             /\ JSONparse(route.params.questionnaireResult) # NULL

\* A submission has navigated to the report after both of its requests.
C2_Witness ==
    \E n \in DOMAIN navigation :
        /\ RequestsBy(<< "details", navigation[n].by >>, "/detection/analyze") # {}
        /\ RequestsBy(<< "details", navigation[n].by >>, "/questionnaire/analyze") # {}

\* C3: at most one onSubmit invocation of the details screen is in progress
\* at any time.
C3_OneSubmissionInProgress == Cardinality(InProgress) <= 1

YesAnswers(v) == { k \in QKeys : v[k] = Yes }

\* C5: the risk level returned for a questionnaire is High when three or more
\* of q1..q5 were answered yes, Medium when exactly two were, Low when one or
\* none was, and always one of the three.
C5_RiskLevelByYesCount ==
    \A n \in DOMAIN navigation :
        LET yes == Cardinality(YesAnswers(submissions[navigation[n].by].values))
            level == Fields(JSONparse(
                         navigation[n].params.questionnaireResult)).risk_level
        IN  /\ level \in { "High", "Medium", "Low" }
            /\ level = "High" <=> yes >= 3
            /\ level = "Medium" <=> yes = 2
            /\ level = "Low" <=> yes <= 1

\* A questionnaire with exactly two yes answers came back Medium.
C5_Witness ==
    \E n \in DOMAIN navigation :
        /\ Cardinality(YesAnswers(submissions[navigation[n].by].values)) = 2
        /\ Fields(JSONparse(
               navigation[n].params.questionnaireResult)).risk_level = "Medium"

\* The values onSubmit was called with by the submit action that issued
\* request k.
SubmittedValues(k) ==
    IF requests[k].by[1] = "details"
    THEN submissions[requests[k].by[2]].values
    ELSE searches[requests[k].by[2]].values

QuestionnaireRequests ==
    { k \in DOMAIN requests : requests[k].endpoint = "/questionnaire/analyze" }
DentistRequests ==
    { k \in DOMAIN requests : requests[k].endpoint = "/dentist/find-dentists" }
ImageRequests ==
    { k \in DOMAIN requests : requests[k].endpoint = "/detection/analyze" }

\* C6, as claimed: every field of a request body equals the value entered in
\* the form.
C6_PassedThroughUnchanged ==
    /\ \A k \in QuestionnaireRequests :
         LET v == SubmittedValues(k)
             body == requests[k].body
         IN  /\ body.patient_info.name = v.name
             /\ body.additional_context = v.additional_context
             /\ \A i \in 1..5 : body.answers[i].answer = v[QKey(i)]
             /\ body.patient_info.gender = v.gender
             /\ body.patient_info.age = v.age
             /\ body.patient_info.medical_history = v.medical_history
    /\ \A k \in DentistRequests :
         LET v == SubmittedValues(k)
             body == requests[k].body
         IN  /\ body.address = v.address
             /\ body.city = v.city
             /\ body.state = v.state
             /\ body.country = v.country
             /\ body.radius_km = v.radius_km

\* C6, amended: name, the five answers, the additional context, address, city,
\* state and country are sent as they were in the form when submit was
\* pressed; age is sent as Number(age), gender in lower case, the medical
\* history as the list of its comma-separated items, each trimmed (the empty
\* list when blank), and radius_km as Number(radius_km).
C6_PassedThroughOrConverted ==
    /\ \A k \in QuestionnaireRequests :
         LET v == SubmittedValues(k)
             body == requests[k].body
             items == split(v.medical_history, ",")
         IN  /\ body.patient_info.name = v.name
             /\ body.additional_context = v.additional_context
             /\ \A i \in 1..5 : body.answers[i].answer = v[QKey(i)]
             /\ body.patient_info.gender = toLowerCase(v.gender)
             /\ body.patient_info.age = Number(v.age)
             /\ body.patient_info.medical_history =
                    IF v.medical_history = EmptyText THEN << >>
                    ELSE [ i \in 1..Len(items) |-> trim(items[i]) ]
    /\ \A k \in DentistRequests :
         LET v == SubmittedValues(k)
             body == requests[k].body
         IN  /\ body.address = v.address
             /\ body.city = v.city
             /\ body.state = v.state
             /\ body.country = v.country
             /\ body.radius_km = Number(v.radius_km)

\* A questionnaire request was sent whose gender differs from the gender
\* typed, whose age is a number and whose medical history has two items.
C6_Witness ==
    \E k \in QuestionnaireRequests :
        /\ requests[k].body.patient_info.gender # SubmittedValues(k).gender
        /\ requests[k].body.patient_info.age = JsNumber(35)
        /\ Len(requests[k].body.patient_info.medical_history) = 2

\* C7: every questionnaire request carries five answers, with question_id q1
\* to q5 in that order, the question texts of the fixed list and an answer of
\* "Yes" or "No"; and no request at all is sent for a form in which one of
\* the five answers is unset.
C7_FiveAnswersInOrder ==
    /\ \A k \in QuestionnaireRequests :
         LET answers == requests[k].body.answers
         IN  /\ Len(answers) = 5
             /\ \A i \in 1..5 :
                  /\ answers[i].question_id = << "q1", "q2", "q3", "q4", "q5" >>[i]
                  /\ answers[i].question_text = questions[i]
                  /\ answers[i].answer \in { Yes, No }
                  /\ answers[i].answer = SubmittedValues(k)[answers[i].question_id]
    /\ \A k \in DOMAIN requests :
         requests[k].by[1] = "details"
         => \A q \in QKeys : SubmittedValues(k)[q] # EmptyText

\* A questionnaire request was sent with both a "Yes" and a "No" among its
\* answers.
C7_Witness ==
    \E k \in QuestionnaireRequests :
        /\ requests[k].body.answers[1].answer = Yes
        /\ requests[k].body.answers[2].answer = No

\* C8: a find-dentists request is sent only for a form whose address, city,
\* state and country are non-empty, and its body holds those four texts and
\* radius_km as a number greater than 0.
C8_PositiveRadiusSent ==
    \A k \in DentistRequests :
        LET v == SubmittedValues(k)
            body == requests[k].body
        IN  /\ v.address # EmptyText /\ v.city # EmptyText
            /\ v.state # EmptyText /\ v.country # EmptyText
            /\ body.address = v.address /\ body.city = v.city
            /\ body.state = v.state /\ body.country = v.country
            /\ body.radius_km # NaN
            /\ body.radius_km[2] > 0

\* C9: the image request is multipart/form-data and carries the image under
\* the form field `image`.
C9_ImageUnderFieldImage ==
    \A k \in ImageRequests :
        /\ requests[k].contentType = "multipart/form-data"
        /\ \E part \in DOMAIN requests[k].body :
             /\ requests[k].body[part].field = "image"
             /\ requests[k].body[part].value.uri = SubmittedValues(k).file

\* A submission that has just received a failure of one of its requests.
FailsNow(i) == ~Failed(submissions[i]) /\ Failed(submissions'[i])
\* A submission that has just received the second of its two answers.
SucceedsNow(i) ==
    /\ submissions[i].questionnaireResponse = "none"
    /\ submissions'[i].questionnaireResponse = "ok"
    /\ submissions'[i].imageResponse = "ok"

FormReset == values # DetailsInitialValues /\ values' = DetailsInitialValues
ImageCleared == imageUri # NULL /\ imageUri' = NULL
ReportOpened == navigation' # navigation

\* C10: a submission whose upload failed never sends the questionnaire
\* request and a failed submission never opens the report; the step in which
\* a request fails leaves the form values, the selected image and the
\* navigation as they were; and the form is reset, the image cleared and the
\* report opened only in the step in which a submission's second request
\* succeeds, which does all three.
C10_NoPartialEffect ==
    /\ [](\A i \in DOMAIN submissions :
            /\ submissions[i].imageResponse = "error"
                 => RequestsBy(<< "details", i >>, "/questionnaire/analyze") = {}
            /\ Failed(submissions[i])
                 => \A n \in DOMAIN navigation : navigation[n].by # i)
    /\ [][ /\ \A i \in DOMAIN submissions :
                FailsNow(i) => /\ values' = values
                               /\ imageUri' = imageUri
                               /\ values'.file = values.file
                               /\ navigation' = navigation
           /\ (FormReset \/ ImageCleared \/ ReportOpened)
                => \E i \in DOMAIN submissions : SucceedsNow(i)
           /\ \A i \in DOMAIN submissions :
                SucceedsNow(i) => /\ values' = DetailsInitialValues
                                  /\ imageUri' = NULL
                                  /\ Len(navigation') = Len(navigation) + 1
         ]_vars

\* The questionnaire request of a submission failed and the form still holds
\* what was submitted, image included, with no report opened.
C10_Witness ==
    \E i \in DOMAIN submissions :
        /\ submissions[i].questionnaireResponse = "error"
        /\ values = submissions[i].values
        /\ imageUri = submissions[i].values.file
        /\ navigation = << >>

\* The searches of the Find Dentists screen whose request is pending.
SearchesInProgress == { i \in DOMAIN searches : searches[i].pc # "done" }

\* C11: in the details screen, whenever a request issued by a submission is
\* in flight, `loading` is true.
C11_LoadingWhileRequestInFlight == InProgress # {} => loading = TRUE

Busy == InProgress # {} \/ SearchesInProgress # {}
Idle ==
    /\ InProgress = {} /\ loading = FALSE
    /\ SearchesInProgress = {} /\ dLoading = FALSE

\* C12: whenever no submission of a screen is in progress that screen's
\* `loading` is false, and, every request being answered eventually, whenever
\* a submission or search is in progress a state follows in which none is and
\* both screens' `loading` is false.
C12_EndsNotLoading ==
    /\ [](InProgress = {} => loading = FALSE)
    /\ [](SearchesInProgress = {} => dLoading = FALSE)
    /\ Busy ~> Idle

\* Two details submissions have ended, one on a failed upload and one on a
\* failed questionnaire request, and nothing is loading.
C12_Witness ==
    /\ Idle
    /\ \E i, j \in DOMAIN submissions :
         /\ submissions[i].imageResponse = "error"
         /\ submissions[j].questionnaireResponse = "error"

\* C13: at most one find-dentists request is pending at any time, and one is
\* pending exactly while the Find Dentists screen's `loading` is true.
C13_OneSearchPending ==
    /\ Cardinality(SearchesInProgress) <= 1
    /\ SearchesInProgress # {} <=> dLoading = TRUE

\* A search is pending while the form again holds values that would pass
\* validation: only the missing Search control keeps a second search back.
C13_Witness ==
    /\ SearchesInProgress # {}
    /\ Submits < MaxSubmits
    /\ DentistValid(dValues)
    /\ \E i \in SearchesInProgress : dValues # searches[i].values

\* C17: the image preview is set exactly when the form's file field is, and
\* then both hold the same URI.
C17_PreviewAgreesWithForm ==
    /\ imageUri # NULL <=> values.file # EmptyText
    /\ imageUri # NULL => imageUri = values.file

\* After a successful submission cleared both, an image was picked again while
\* another submission had failed.
C17_Witness ==
    /\ navigation # << >>
    /\ imageUri # NULL
    /\ \E i \in DOMAIN submissions : Failed(submissions[i])

\* The searches answered successfully so far.
SucceededSearches == { i \in DOMAIN searches : searches[i].response = "ok" }

\* The most recent of them.
LastSucceededSearch ==
    CHOOSE i \in SucceededSearches : \A j \in SucceededSearches : j <= i

SearchSucceedsNow(i) ==
    searches[i].response = "none" /\ searches'[i].response = "ok"
SearchFailsNow(i) ==
    searches[i].response = "none" /\ searches'[i].response = "error"

\* C14: `results` is the dentists list of the most recent successful search
\* (empty when the response has no `dentists` or no search has succeeded), the
\* "No Dentist!" card is shown exactly when `results` is empty, the step in
\* which a search succeeds sets the list and resets the form, and the step in
\* which a search fails leaves the list and the form values as they were.
C14_ResultsOfLastSuccessfulSearch ==
    /\ [](/\ results = IF SucceededSearches = {} THEN << >>
                        ELSE DentistsOf(searches[LastSucceededSearch].data)
          /\ (\E c \in DOMAIN ResultsSection : ResultsSection[c] = "No Dentist!")
                <=> results = << >>)
    /\ [][ \A i \in DOMAIN searches :
             /\ SearchSucceedsNow(i)
                  => /\ results' = DentistsOf(searches'[i].data)
                     /\ dValues' = DentistInitialValues
             /\ SearchFailsNow(i)
                  => /\ results' = results
                     /\ dValues' = dValues
         ]_vars

\* A search failed after an earlier one had listed a dentist, and the list is
\* still shown.
C14_Witness ==
    \E i, j \in DOMAIN searches :
        /\ i < j
        /\ searches[i].response = "ok"
        /\ searches[j].response = "error"
        /\ Len(results) = 1
        /\ results = DentistsOf(searches[i].data)

\* The messages shown under the fields of the details form:
\* touched[field] && errors[field] && <Text>{errors[field]}</Text>.
DisplayedErrors == { e \in errors : touched /\ e[2] # "" }

\* C15: once a submit attempt has been blocked by validation (the fields are
\* touched and the form does not pass), at least one non-empty error message
\* is displayed.
C15_BlockedSubmitShowsMessage ==
    (touched /\ ~DetailsValid(values)) => DisplayedErrors # {}

\* A route parameter that is present and parses to a non-null value.
ParsesNonNull(param) ==
    /\ param # Undefined
    /\ IsJSONText(param)
    /\ JSONparse(param) # NULL

\* C18: the report screen shows the report cards when both route parameters
\* are present and parse to non-null values, and only the "No Report
\* Available" card in every other case.
C18_ReportIffBothParsed ==
    report.open =>
        /\ report.error = "none"
        /\ report.cards =
              IF /\ ParsesNonNull(report.params.questionnaireResult)
                 /\ ParsesNonNull(report.params.imageResult)
              THEN ReportCards
              ELSE << "No Report Available" >>

\* An image of at most 1 MB whose type is JPEG or PNG.
Acceptable(image) ==
    /\ image.bytes <= 1024 * 1024
    /\ image.mimeType \in { "image/jpeg", "image/jpg", "image/png" }

\* C16: the image held by the details form, and so every image uploaded, is
\* at most 1 MB and of type image/jpeg, image/jpg or image/png, and the
\* preview and the file field are only ever set to a picked image's URI.
C16_OnlySmallJpegOrPngAccepted ==
    /\ values.file # EmptyText
         => /\ \E image \in Images : image.uri = values.file
            /\ Acceptable(ImageAt(values.file))
    /\ imageUri # NULL => Acceptable(ImageAt(imageUri))
    /\ \A k \in ImageRequests :
         \A part \in DOMAIN requests[k].body :
             Acceptable(ImageAt(requests[k].body[part].value.uri))

\* C19: the type declared for the image part of an upload is image/png when
\* the image was accepted as image/png and image/jpeg when it was accepted as
\* image/jpeg or image/jpg.
C19_DeclaredTypeIsAcceptedType ==
    \A k \in ImageRequests :
        \A part \in DOMAIN requests[k].body :
            requests[k].body[part].value.type =
                IF ImageAt(requests[k].body[part].value.uri).mimeType = "image/png"
                THEN "image/png"
                ELSE "image/jpeg"

====
